---- MODULE Spec2Model ----
(***************************************************************************)
(* ExecutableUpdaterCPP: the update check of Updater/Updater.h (metadata    *)
(* fetch, version decision, payload download, swap and relaunch), the main  *)
(* program that calls it, and the detached batch script that replaces the   *)
(* executable.                                                              *)
(*                                                                          *)
(* C++ strings are sequences of pieces (characters for versions, path and   *)
(* URL components for paths and URLs), so that comparison, concatenation    *)
(* and find_last_of are computed rather than assumed.                       *)
(***************************************************************************)
EXTENDS Integers, Sequences, FiniteSets, TLC

\* Largest number of buffers the update payload is transferred in.
MaxChunks == 2

----------------------------------------------------------------------------
(* Strings the program is run with. *)

V10 == <<"1", ".", "0">>
V10sp == <<"1", ".", "0", " ">>
V09 == <<"0", ".", "9">>
V20 == <<"2", ".", "0">>
Versions == {V10, V10sp, V09, V20}

AUTO_UPDATER_CONFIG_URL == <<"https://pastebin.com/raw/", "XXXXXXXX">>
CustomConfigUrl == <<"https://example.com/", "version.json">>
ConfigUrlArgs == {<< >>, CustomConfigUrl}

LinkUrl == <<"https://example.com/", "app_v2.0.exe">>

\* What GetTempPathA and GetModuleFileNameA hand out.
TempPath == <<"C:", "\\", "Temp", "\\">>
ExePaths == {<<"C:", "\\", "App", "\\", "app.exe">>, <<"D:", "/", "tools", "\\", "tool.exe">>}

OldImage == <<0>>
Chunks(n) == [i \in 1..n |-> i]

----------------------------------------------------------------------------
(* nlohmann::json values and the text of a metadata response.  A response   *)
(* is a sequence of tokens; one token arrives per InternetReadFile buffer.  *)

JNull == [t |-> "null"]
JStr(s) == [t |-> "str", s |-> s]
JNum(n) == [t |-> "num", n |-> n]
JObj(m) == [t |-> "obj", m |-> m]

LBrace == [t |-> "lbrace"]
RBrace == [t |-> "rbrace"]
Junk == [t |-> "junk"]
Pair(k, v) == [t |-> "pair", k |-> k, v |-> v]
Val(v) == [t |-> "val", v |-> v]

MetaDocs ==
    {<< >>, <<Junk>>, <<LBrace, RBrace>>, <<Val(JNum(5))>>}
    \cup {<<LBrace, Pair("AppVersion", JStr(v)), RBrace>> : v \in Versions}
    \cup {<<LBrace, Pair("UpdateLink", JStr(LinkUrl)), RBrace>>}
    \cup {<<LBrace, Pair("AppVersion", JStr(v)), Pair("UpdateLink", JStr(LinkUrl)), RBrace>> :
            v \in Versions}
    \cup {<<LBrace, Pair("AppVersion", JNum(2)), Pair("UpdateLink", JStr(LinkUrl)), RBrace>>}
    \cup {<<LBrace, Pair("AppVersion", JStr(V20)), Pair("UpdateLink", JNum(7)), RBrace>>}

\* The text is one complete JSON value: a scalar, or an object of pairs.
WellFormed(text) ==
    /\ Len(text) >= 1
    /\ \/ Len(text) = 1 /\ text[1].t = "val"
       \/ /\ Len(text) >= 2
          /\ text[1].t = "lbrace"
          /\ text[Len(text)].t = "rbrace"
          /\ \A i \in 2..(Len(text) - 1) : text[i].t = "pair"

ParseValue(text) ==
    IF text[1].t = "val"
    THEN text[1].v
    ELSE LET idx == 2..(Len(text) - 1)
             keys == {text[i].k : i \in idx}
             last(k) == CHOOSE i \in idx :
                            /\ text[i].k = k
                            /\ \A j \in idx : text[j].k = k => j <= i
         IN JObj([k \in keys |-> text[last(k)].v])

\* file >> result: the parsed value, or a parse exception that leaves result
\* as it was.
StreamExtract(text, result) ==
    IF WellFormed(text)
    THEN [thrown |-> FALSE, j |-> ParseValue(text)]
    ELSE [thrown |-> TRUE, j |-> result]

JsonEmpty(j) ==
    CASE j.t = "null" -> TRUE
      [] j.t = "obj" -> DOMAIN j.m = {}
      [] OTHER -> FALSE

JsonContains(j, key) == j.t = "obj" /\ key \in DOMAIN j.m

\* j[key] on a value that is an object (a missing key reads as null).
JsonIndex(j, key) == IF key \in DOMAIN j.m THEN j.m[key] ELSE JNull

\* get<std::string>(): the string, or a type_error.
JsonGetString(v) ==
    IF v.t = "str" THEN [thrown |-> FALSE, s |-> v.s] ELSE [thrown |-> TRUE, s |-> << >>]

----------------------------------------------------------------------------
(* The file system: a function from the paths that exist to their content. *)

Exists(fs, p) == p \in DOMAIN fs
WriteFile(fs, p, data) == (p :> data) @@ fs
DeleteFileA(fs, p) == [q \in DOMAIN fs \ {p} |-> fs[q]]

----------------------------------------------------------------------------
(* downloadFile.  The network's behaviour during one call is a fault (the   *)
(* first thing that goes wrong, if anything) and the body the URL serves.   *)

NoFault == [kind |-> "none", at |-> 0]
Faults(body) ==
    {NoFault, [kind |-> "init", at |-> 0], [kind |-> "url", at |-> 0],
     [kind |-> "create", at |-> 0]}
    \cup {[kind |-> "write", at |-> i] : i \in 1..Len(body)}
    \cup {[kind |-> "read", at |-> i] : i \in 1..(Len(body) + 1)}

\* The read loop from its i-th InternetReadFile call on.
RECURSIVE ReadLoop(_, _, _, _)
ReadLoop(body, i, fault, written) ==
    IF fault.kind = "read" /\ fault.at = i
    THEN [success |-> TRUE, data |-> written]
    ELSE IF i > Len(body)
    THEN [success |-> TRUE, data |-> written]
    ELSE IF fault.kind = "write" /\ fault.at = i
    THEN [success |-> FALSE, data |-> written]
    ELSE ReadLoop(body, i + 1, fault, Append(written, body[i]))

downloadFile(url, filepath, body, fault, fs) ==
    IF fault.kind = "init" THEN [ok |-> FALSE, fs |-> fs]
    ELSE IF fault.kind = "url" THEN [ok |-> FALSE, fs |-> fs]
    ELSE IF fault.kind = "create" THEN [ok |-> FALSE, fs |-> fs]
    ELSE LET r == ReadLoop(body, 1, fault, << >>)
         IN [ok |-> r.success, fs |-> WriteFile(fs, filepath, r.data)]

TempFile(dir) == dir \o <<"\\", "version_info.json">>
UpdateFilePath(dir) == dir \o <<"\\", "app_update.exe">>
BatchPath(dir) == dir \o <<"\\", "updater_script.bat">>

fetchVersionInfo(jsonUrl, dir, body, fault, readable, fs) ==
    LET tempFile == TempFile(dir)
        dl == downloadFile(jsonUrl, tempFile, body, fault, fs)
    IN IF ~dl.ok
       THEN [result |-> JNull, fs |-> dl.fs]
       ELSE LET parsed == IF readable
                          THEN StreamExtract(dl.fs[tempFile], JNull).j
                          ELSE JNull
            IN [result |-> parsed, fs |-> DeleteFileA(dl.fs, tempFile)]

----------------------------------------------------------------------------
(* The private helpers of AutoUpdater. *)

IsSeparator(c) == c \in {"\\", "/"}

\* fullPath.find_last_of("\\/"), 0 standing for npos.
FindLastSeparator(fullPath) ==
    LET hits == {i \in 1..Len(fullPath) : IsSeparator(fullPath[i])}
    IN IF hits = {} THEN 0 ELSE CHOOSE i \in hits : \A j \in hits : j <= i

extractFileName(fullPath) ==
    LET pos == FindLastSeparator(fullPath)
    IN IF pos # 0 THEN SubSeq(fullPath, pos + 1, Len(fullPath)) ELSE fullPath

\* A comparison that overlooks trailing blanks.
RECURSIVE TrimRight(_)
TrimRight(s) ==
    IF s # << >> /\ s[Len(s)] = " " THEN TrimRight(SubSeq(s, 1, Len(s) - 1)) ELSE s

isNewerVersionTrimmed(current, remote) == TrimRight(current) # TrimRight(remote)

isNewerVersion(current, remote) == current # remote

\* The constructor's m_tempDirectory: the temp path without a trailing backslash.
StripTrailingBackslash(s) ==
    IF s # << >> /\ s[Len(s)] = "\\" THEN SubSeq(s, 1, Len(s) - 1) ELSE s

\* The script with the copy's source and destination exchanged.
BatchScriptSwapped(newExePath, currentExePath) ==
    << [op |-> "timeout", t |-> 3],
       [op |-> "taskkill", im |-> extractFileName(currentExePath)],
       [op |-> "timeout", t |-> 1],
       [op |-> "copy", src |-> currentExePath, dst |-> newExePath],
       [op |-> "iferrorlevel", level |-> 1],
       [op |-> "start", path |-> currentExePath],
       [op |-> "timeout", t |-> 2],
       [op |-> "del", path |-> newExePath],
       [op |-> "delself"] >>

\* The script without the test of the copy's result.
BatchScriptNoErrorCheck(newExePath, currentExePath) ==
    << [op |-> "timeout", t |-> 3],
       [op |-> "taskkill", im |-> extractFileName(currentExePath)],
       [op |-> "timeout", t |-> 1],
       [op |-> "copy", src |-> newExePath, dst |-> currentExePath],
       [op |-> "start", path |-> currentExePath],
       [op |-> "timeout", t |-> 2],
       [op |-> "del", path |-> newExePath],
       [op |-> "delself"] >>

\* The script without the taskkill line: only the waits stand between the
\* launch and the copy.
BatchScriptNoKill(newExePath, currentExePath) ==
    << [op |-> "timeout", t |-> 3],
       [op |-> "timeout", t |-> 1],
       [op |-> "copy", src |-> newExePath, dst |-> currentExePath],
       [op |-> "iferrorlevel", level |-> 1],
       [op |-> "start", path |-> currentExePath],
       [op |-> "timeout", t |-> 2],
       [op |-> "del", path |-> newExePath],
       [op |-> "delself"] >>

\* The commands executeUpdate streams into the script, console output left out.
BatchScript(newExePath, currentExePath) ==
    << [op |-> "timeout", t |-> 3],
       [op |-> "taskkill", im |-> extractFileName(currentExePath)],
       [op |-> "timeout", t |-> 1],
       [op |-> "copy", src |-> newExePath, dst |-> currentExePath],
       [op |-> "iferrorlevel", level |-> 1],
       [op |-> "start", path |-> currentExePath],
       [op |-> "timeout", t |-> 2],
       [op |-> "del", path |-> newExePath],
       [op |-> "delself"] >>

\* The decision with the validation left out and absent or non-string fields
\* read as empty strings.
ValidateAndDecideDefaults(vi, cur) ==
    LET field(key) == IF JsonContains(vi, key) /\ ~JsonGetString(JsonIndex(vi, key)).thrown
                      THEN JsonGetString(JsonIndex(vi, key)).s
                      ELSE << >>
    IN IF ~isNewerVersion(cur, field("AppVersion"))
       THEN [next |-> "ret_false", remoteVersion |-> field("AppVersion"),
             updateLink |-> field("UpdateLink")]
       ELSE [next |-> "download", remoteVersion |-> field("AppVersion"),
             updateLink |-> field("UpdateLink")]

\* Lines 291-313 of checkForUpdate: validation of the metadata, extraction of
\* the two strings and the version decision.
ValidateAndDecide(vi, cur) ==
    IF JsonEmpty(vi) \/ ~JsonContains(vi, "AppVersion") \/ ~JsonContains(vi, "UpdateLink")
    THEN [next |-> "ret_false", remoteVersion |-> << >>, updateLink |-> << >>]
    ELSE LET rv == JsonGetString(JsonIndex(vi, "AppVersion"))
             ul == JsonGetString(JsonIndex(vi, "UpdateLink"))
         IN IF rv.thrown
            THEN [next |-> "ret_false", remoteVersion |-> << >>, updateLink |-> << >>]
            ELSE IF ul.thrown
            THEN [next |-> "ret_false", remoteVersion |-> rv.s, updateLink |-> << >>]
            ELSE IF ~isNewerVersion(cur, rv.s)
            THEN [next |-> "ret_false", remoteVersion |-> rv.s, updateLink |-> ul.s]
            ELSE [next |-> "download", remoteVersion |-> rv.s, updateLink |-> ul.s]

\* An exit call that comes back to its caller.
ExitProcessReturns == [pc |-> "ret_true", alive |-> TRUE]

\* ExitProcess(0) ends the process; control never comes back to executeUpdate.
ExitProcessEffect == [pc |-> "terminated", alive |-> FALSE]

\* The image name the system knows a process started from path p by.
ImageName(p) == <<p[Len(p)]>>

----------------------------------------------------------------------------
VARIABLES
    pc,               \* where the application process is
    alive,            \* the application process is running
    exePath,          \* the path of the running executable
    m_updateUrl, m_currentVersion, m_tempDirectory,
    versionInfo, remoteVersion, updateLink,   \* locals of checkForUpdate
    fs,               \* the file system
    ret,              \* what Updated() returned to main: "none", "false", "true"
    branch,           \* the branch main took: "none", "applied", "normal"
    netlog,           \* the downloadFile calls made, in order
    swap,             \* how far the swap stage got
    sstate, spc, errorlevel, slog,   \* the replacement script's process
    relaunched        \* the images the script has started

vars == <<pc, alive, exePath, m_updateUrl, m_currentVersion, m_tempDirectory,
          versionInfo, remoteVersion, updateLink, fs, ret, branch, netlog, swap,
          sstate, spc, errorlevel, slog, relaunched>>

appVars == <<pc, alive, m_updateUrl, m_currentVersion, m_tempDirectory,
             versionInfo, remoteVersion, updateLink, ret, branch, netlog, swap>>

NoSwap == [located |-> "none", opened |-> "none", written |-> "none", launched |-> "none"]

Init ==
    /\ pc = "start"
    /\ alive = TRUE
    /\ exePath \in ExePaths
    /\ m_updateUrl = << >>
    /\ m_currentVersion = << >>
    /\ m_tempDirectory = << >>
    /\ versionInfo = JNull
    /\ remoteVersion = << >>
    /\ updateLink = << >>
    /\ fs = (exePath :> OldImage)
    /\ ret = "none"
    /\ branch = "none"
    /\ netlog = << >>
    /\ swap = NoSwap
    /\ sstate = "none"
    /\ spc = 0
    /\ errorlevel = 0
    /\ slog = << >>
    /\ relaunched = << >>

----------------------------------------------------------------------------
(* The application process. *)

scriptVars == <<sstate, spc, errorlevel, slog, relaunched>>

\* main calls Updated(version) or checkForUpdates(version, configUrl): the
\* updater is constructed and checkForUpdate begins.
Call(version, configUrl, tempOk) ==
    /\ pc = "start"
    /\ m_updateUrl' = IF configUrl = << >> THEN AUTO_UPDATER_CONFIG_URL ELSE configUrl
    /\ IF tempOk
       THEN /\ m_tempDirectory' = StripTrailingBackslash(TempPath)
            /\ m_currentVersion' = version
            /\ pc' = "fetch"
       ELSE /\ UNCHANGED <<m_tempDirectory, m_currentVersion>>
            /\ pc' = "ret_false"
    /\ UNCHANGED <<alive, exePath, versionInfo, remoteVersion, updateLink, fs, ret,
                   branch, netlog, swap>>
    /\ UNCHANGED scriptVars

\* versionInfo = fetchVersionInfo(m_updateUrl)
FetchVersionInfo(body, fault, readable) ==
    /\ pc = "fetch"
    /\ LET r == fetchVersionInfo(m_updateUrl, m_tempDirectory, body, fault, readable, fs)
           dl == downloadFile(m_updateUrl, TempFile(m_tempDirectory), body, fault, fs)
       IN /\ versionInfo' = r.result
          /\ fs' = r.fs
          /\ netlog' = Append(netlog, [url |-> m_updateUrl,
                                       filepath |-> TempFile(m_tempDirectory),
                                       body |-> body, fault |-> fault, ok |-> dl.ok])
    /\ pc' = "validate"
    /\ UNCHANGED <<alive, exePath, m_updateUrl, m_currentVersion, m_tempDirectory,
                   remoteVersion, updateLink, ret, branch, swap>>
    /\ UNCHANGED scriptVars

\* The checks on versionInfo and the version decision.
Validate ==
    /\ pc = "validate"
    /\ LET d == ValidateAndDecide(versionInfo, m_currentVersion)
       IN /\ pc' = d.next
          /\ remoteVersion' = d.remoteVersion
          /\ updateLink' = d.updateLink
    /\ UNCHANGED <<alive, exePath, m_updateUrl, m_currentVersion, m_tempDirectory,
                   versionInfo, fs, ret, branch, netlog, swap>>
    /\ UNCHANGED scriptVars

\* downloadFile(updateLink, updateFilePath)
DownloadUpdate(body, fault) ==
    /\ pc = "download"
    /\ LET path == UpdateFilePath(m_tempDirectory)
           dl == downloadFile(updateLink, path, body, fault, fs)
       IN /\ fs' = dl.fs
          /\ netlog' = Append(netlog, [url |-> updateLink, filepath |-> path,
                                       body |-> body, fault |-> fault, ok |-> dl.ok])
          /\ pc' = IF dl.ok THEN "swap" ELSE "ret_false"
    /\ UNCHANGED <<alive, exePath, m_updateUrl, m_currentVersion, m_tempDirectory,
                   versionInfo, remoteVersion, updateLink, ret, branch, swap>>
    /\ UNCHANGED scriptVars

\* getCurrentExecutablePath() and executeUpdate up to batch.close().  The
\* stream is never tested after it is opened: a failing write loses the last
\* `lost` commands of the script.
WriteScript(pathOk, openOk) ==
    /\ pc = "swap"
    /\ LET script == BatchScript(UpdateFilePath(m_tempDirectory), exePath)
           batchPath == BatchPath(m_tempDirectory)
       IN \E lost \in 0..Len(script) :
          /\ IF ~pathOk
             THEN /\ swap' = [swap EXCEPT !.located = "fail"]
                  /\ pc' = "ret_false"
                  /\ fs' = fs
             ELSE IF ~openOk
             THEN /\ swap' = [swap EXCEPT !.located = "ok", !.opened = "fail"]
                  /\ pc' = "ret_false"
                  /\ fs' = fs
             ELSE /\ swap' = [swap EXCEPT !.located = "ok", !.opened = "ok",
                                          !.written = IF lost = 0 THEN "ok" ELSE "fail"]
                  /\ pc' = "launch"
                  /\ fs' = WriteFile(fs, batchPath,
                                     SubSeq(script, 1, Len(script) - lost))
    /\ UNCHANGED <<alive, exePath, m_updateUrl, m_currentVersion, m_tempDirectory,
                   versionInfo, remoteVersion, updateLink, ret, branch, netlog>>
    /\ UNCHANGED scriptVars

\* ShellExecuteA(nullptr, "open", batchPath, ...): its result is not looked at.
LaunchScript(ok) ==
    /\ pc = "launch"
    /\ swap' = [swap EXCEPT !.launched = IF ok THEN "ok" ELSE "fail"]
    /\ IF ok
       THEN sstate' = "running" /\ spc' = 1
       ELSE UNCHANGED <<sstate, spc>>
    /\ pc' = "exit"
    /\ UNCHANGED <<alive, exePath, m_updateUrl, m_currentVersion, m_tempDirectory,
                   versionInfo, remoteVersion, updateLink, fs, ret, branch, netlog,
                   errorlevel, slog, relaunched>>

\* ExitProcess(0)
ExitProcess ==
    /\ pc = "exit"
    /\ pc' = ExitProcessEffect.pc
    /\ alive' = ExitProcessEffect.alive
    /\ UNCHANGED <<exePath, m_updateUrl, m_currentVersion, m_tempDirectory,
                   versionInfo, remoteVersion, updateLink, fs, ret, branch, netlog, swap>>
    /\ UNCHANGED scriptVars

\* checkForUpdate returns, and checkForUpdates and Updated pass the value on.
Return ==
    /\ pc \in {"ret_false", "ret_true"}
    /\ ret' = IF pc = "ret_true" THEN "true" ELSE "false"
    /\ pc' = "returned"
    /\ UNCHANGED <<alive, exePath, m_updateUrl, m_currentVersion, m_tempDirectory,
                   versionInfo, remoteVersion, updateLink, fs, branch, netlog, swap>>
    /\ UNCHANGED scriptVars

\* if (Updated(currentVersion)) { ... return 0; } else { ... } in main.
MainBranch ==
    /\ pc = "returned"
    /\ branch' = IF ret = "true" THEN "applied" ELSE "normal"
    /\ alive' = (ret # "true")
    /\ pc' = "main"
    /\ UNCHANGED <<exePath, m_updateUrl, m_currentVersion, m_tempDirectory,
                   versionInfo, remoteVersion, updateLink, fs, ret, netlog, swap>>
    /\ UNCHANGED scriptVars

----------------------------------------------------------------------------
(* The replacement script, run by a command interpreter of its own.  The    *)
(* interpreter reads the next command from the script file before each      *)
(* step; the waits take time and change nothing else.                       *)

ScriptFile == BatchPath(m_tempDirectory)

ScriptHasCmd == Exists(fs, ScriptFile) /\ spc <= Len(fs[ScriptFile])

ScriptAt(op) == sstate = "running" /\ ScriptHasCmd /\ fs[ScriptFile][spc].op = op

ScriptCmd == fs[ScriptFile][spc]

\* timeout /t n /nobreak
ScriptTimeout ==
    /\ ScriptAt("timeout")
    /\ slog' = Append(slog, "wait")
    /\ spc' = spc + 1
    /\ UNCHANGED <<sstate, errorlevel, relaunched, fs, exePath>>
    /\ UNCHANGED appVars

\* taskkill /f /im name: every process of that image name is ended.
ScriptTaskkill ==
    /\ ScriptAt("taskkill")
    /\ LET hit == alive /\ ScriptCmd.im = ImageName(exePath)
       IN /\ alive' = IF hit THEN FALSE ELSE alive
          /\ pc' = IF hit THEN "killed" ELSE pc
    /\ slog' = Append(slog, "taskkill")
    /\ spc' = spc + 1
    /\ UNCHANGED <<sstate, errorlevel, relaunched, fs, exePath>>
    /\ UNCHANGED <<m_updateUrl, m_currentVersion, m_tempDirectory, versionInfo,
                   remoteVersion, updateLink, ret, branch, netlog, swap>>

\* copy /Y src dst
ScriptCopy(ok) ==
    /\ ScriptAt("copy")
    /\ IF ok /\ Exists(fs, ScriptCmd.src)
       THEN /\ fs' = WriteFile(fs, ScriptCmd.dst, fs[ScriptCmd.src])
            /\ errorlevel' = 0
            /\ slog' = Append(slog, "copy_ok")
       ELSE /\ fs' = fs
            /\ errorlevel' = 1
            /\ slog' = Append(slog, "copy_fail")
    /\ spc' = spc + 1
    /\ UNCHANGED <<sstate, relaunched, exePath>>
    /\ UNCHANGED appVars

\* if errorlevel 1 ( echo ... / pause / exit /b 1 )
ScriptIfErrorlevel ==
    /\ ScriptAt("iferrorlevel")
    /\ IF errorlevel >= ScriptCmd.level
       THEN /\ sstate' = "paused"
            /\ slog' = Append(slog, "pause")
            /\ spc' = spc
       ELSE /\ sstate' = sstate
            /\ slog' = slog
            /\ spc' = spc + 1
    /\ UNCHANGED <<errorlevel, relaunched, fs, exePath>>
    /\ UNCHANGED appVars

\* A key ends the pause, and exit /b 1 ends the script.
ScriptExit ==
    /\ sstate = "paused"
    /\ sstate' = "exit1"
    /\ slog' = Append(slog, "exit1")
    /\ UNCHANGED <<spc, errorlevel, relaunched, fs, exePath>>
    /\ UNCHANGED appVars

\* start "" path
ScriptStart ==
    /\ ScriptAt("start")
    /\ relaunched' = IF Exists(fs, ScriptCmd.path)
                     THEN Append(relaunched, fs[ScriptCmd.path])
                     ELSE relaunched
    /\ slog' = Append(slog, "start")
    /\ spc' = spc + 1
    /\ UNCHANGED <<sstate, errorlevel, fs, exePath>>
    /\ UNCHANGED appVars

\* del path
ScriptDel ==
    /\ ScriptAt("del")
    /\ fs' = DeleteFileA(fs, ScriptCmd.path)
    /\ slog' = Append(slog, "del")
    /\ spc' = spc + 1
    /\ UNCHANGED <<sstate, errorlevel, relaunched, exePath>>
    /\ UNCHANGED appVars

\* del "%~f0"
ScriptDelSelf ==
    /\ ScriptAt("delself")
    /\ fs' = DeleteFileA(fs, ScriptFile)
    /\ slog' = Append(slog, "delself")
    /\ spc' = spc + 1
    /\ UNCHANGED <<sstate, errorlevel, relaunched, exePath>>
    /\ UNCHANGED appVars

\* No command is left to read.
ScriptEnd ==
    /\ sstate = "running"
    /\ ~ScriptHasCmd
    /\ sstate' = "done"
    /\ UNCHANGED <<spc, errorlevel, slog, relaunched, fs, exePath>>
    /\ UNCHANGED appVars

----------------------------------------------------------------------------
Next ==
    \/ \E v \in Versions, u \in ConfigUrlArgs, t \in BOOLEAN : Call(v, u, t)
    \/ \E body \in MetaDocs : \E f \in Faults(body), r \in BOOLEAN :
            FetchVersionInfo(body, f, r)
    \/ Validate
    \/ \E n \in 0..MaxChunks : \E f \in Faults(Chunks(n)) : DownloadUpdate(Chunks(n), f)
    \/ \E p \in BOOLEAN, o \in BOOLEAN : WriteScript(p, o)
    \/ \E ok \in BOOLEAN : LaunchScript(ok)
    \/ ExitProcess
    \/ Return
    \/ MainBranch
    \/ ScriptTimeout
    \/ ScriptTaskkill
    \/ \E ok \in BOOLEAN : ScriptCopy(ok)
    \/ ScriptIfErrorlevel
    \/ ScriptExit
    \/ ScriptStart
    \/ ScriptDel
    \/ ScriptDelSelf
    \/ ScriptEnd

Spec == Init /\ [][Next]_vars

\* The application runs on one thread: once the script is written it goes on
\* to ShellExecuteA and then to ExitProcess.
FairSpec ==
    /\ Spec
    /\ WF_vars(\E ok \in BOOLEAN : LaunchScript(ok))
    /\ WF_vars(ExitProcess)

----------------------------------------------------------------------------
(* State functions the properties are written with. *)

\* The first downloadFile call of a check fetches the metadata; a second one,
\* if any, is the payload download.
MetaFetched == Len(netlog) >= 1
PayloadAttempted == Len(netlog) >= 2
PayloadCall == netlog[2]

\* What the read loop of a logged call received before it ended.
Received(call) == ReadLoop(call.body, 1, call.fault, << >>).data

Decided == pc \notin {"start", "fetch", "validate"}
BackInCaller == pc \in {"ret_false", "returned", "main"}
GoneInsideCall == pc \in {"terminated", "killed"}

ArtifactPath == UpdateFilePath(m_tempDirectory)

BothKeysAsStrings ==
    /\ versionInfo.t = "obj"
    /\ {"AppVersion", "UpdateLink"} \subseteq DOMAIN versionInfo.m
    /\ versionInfo.m["AppVersion"].t = "str"
    /\ versionInfo.m["UpdateLink"].t = "str"

NoSwapYet ==
    /\ swap = NoSwap
    /\ ~Exists(fs, ScriptFile)
    /\ sstate = "none"
    /\ alive

----------------------------------------------------------------------------
MetaBad ==
    LET call == netlog[1]
    IN \/ ~call.ok
       \/ ~WellFormed(call.body)
       \/ ~WellFormed(Received(call))
       \/ LET j == ParseValue(call.body)
          IN \/ j.t # "obj"
             \/ "AppVersion" \notin DOMAIN j.m
             \/ "UpdateLink" \notin DOMAIN j.m

C2_BadMetadataNoDownload ==
    (MetaFetched /\ MetaBad) =>
        /\ pc \in {"validate", "ret_false", "returned", "main"}
        /\ pc \in {"returned", "main"} => ret = "false"
        /\ ~PayloadAttempted
        /\ ~Exists(fs, ArtifactPath)
        /\ NoSwapYet

C2_Witness ==
    /\ MetaFetched
    /\ netlog[1].ok
    /\ WellFormed(Received(netlog[1]))
    /\ versionInfo.t = "obj"
    /\ DOMAIN versionInfo.m = {"AppVersion"}
    /\ pc = "returned"
    /\ ret = "false"

\* C3 (as claimed): whenever the payload download fails, at network init, at
\* opening the link, at creating or writing the file, or at a read part-way
\* through the transfer, the check returns false, no script is written or
\* launched and the process is not terminated.
PayloadFailed ==
    /\ PayloadAttempted
    /\ \/ PayloadCall.fault.kind \in {"init", "url", "create", "write"}
       \/ /\ PayloadCall.fault.kind = "read"
          /\ PayloadCall.fault.at <= Len(PayloadCall.body)

C3_FailedDownloadReturnsFalse ==
    PayloadFailed =>
        /\ BackInCaller
        /\ pc \in {"returned", "main"} => ret = "false"
        /\ NoSwapYet

\* C4 (as claimed): whenever the payload download succeeds, the script is
\* produced and the process terminates without the call returning.
C4_SuccessAlwaysTerminates ==
    (PayloadAttempted /\ PayloadCall.ok) =>
        /\ ~BackInCaller
        /\ ret = "none"
        /\ pc # "swap" => swap.opened = "ok"

\* The paths a script text names.
PathsReferenced(script) ==
    UNION {CASE script[i].op = "copy" -> {script[i].src, script[i].dst}
             [] script[i].op \in {"start", "del"} -> {script[i].path}
             [] OTHER -> {} : i \in 1..Len(script)}

ScriptReferencesExactly(script, artifact, exe) ==
    /\ PathsReferenced(script) = {artifact, exe}
    /\ \A i \in 1..Len(script) :
          /\ script[i].op = "copy" => script[i].src = artifact /\ script[i].dst = exe
          /\ script[i].op = "start" => script[i].path = exe
          /\ script[i].op = "del" => script[i].path = artifact
          /\ script[i].op = "taskkill" => script[i].im = ImageName(exe)

\* Once the swap stage has the executable's path and an open script file,
\* the call is on its way to ExitProcess and gives nothing to its caller.
SwapStartedNeverReturns ==
    (swap.located = "ok" /\ swap.opened = "ok") =>
        /\ PayloadAttempted
        /\ PayloadCall.ok
        /\ pc \in {"launch", "exit", "terminated", "killed"}
        /\ ret = "none" /\ branch = "none"
        /\ GoneInsideCall => ~alive
        /\ (pc = "launch" /\ swap.written = "ok") =>
              /\ Exists(fs, ScriptFile)
              /\ ScriptReferencesExactly(fs[ScriptFile], ArtifactPath, exePath)

SwapStarted == swap.located = "ok" /\ swap.opened = "ok"

\* A failed path lookup or a script file that cannot be opened is an
\* exception caught in checkForUpdate: false, no script, process running.
SwapNotStartedReturnsFalse ==
    (swap.located = "fail" \/ swap.opened = "fail") =>
        /\ BackInCaller
        /\ pc \in {"returned", "main"} => ret = "false"
        /\ ~Exists(fs, ScriptFile)
        /\ sstate = "none"
        /\ alive

\* C4 (amended): whenever the payload download succeeds and the swap stage
\* obtains the executable's path and opens the script file, the script
\* written in full references exactly the downloaded artifact's path and the
\* current executable's path, and the process then terminates without
\* checkForUpdate returning to its caller.
C4_SwapStartedTerminates ==
    /\ []SwapStartedNeverReturns
    /\ []SwapNotStartedReturnsFalse
    /\ SwapStarted ~> ~alive

C4_Witness ==
    /\ swap.located = "ok" /\ swap.opened = "ok" /\ swap.written = "ok"
    /\ swap.launched = "ok"
    /\ pc = "terminated"
    /\ Exists(fs, ScriptFile)

UpdateApplied ==
    /\ swap.written = "ok"
    /\ swap.launched = "ok"
    /\ GoneInsideCall

C6_ReturnsTrueWhenApplied ==
    UpdateApplied => ret = "true" /\ branch = "applied"

\* C7 (as claimed): a failure in the swap stage (no executable path, script
\* not written, script not launched) comes back as false with the process
\* still running; the process is never ended unless the script was written
\* and launched.
SwapFailed ==
    \/ swap.located = "fail"
    \/ swap.opened = "fail"
    \/ swap.written = "fail"
    \/ swap.launched = "fail"

C7_SwapFailureReturnsFalse ==
    /\ SwapFailed => alive /\ ~GoneInsideCall
    /\ ~alive => swap.written = "ok" /\ swap.launched = "ok"

\* C8: the script waits, overwrites the executable with the artifact, starts
\* the executable, then deletes the artifact and itself, in this order; the
\* start and the deletions come only after a successful overwrite, and a
\* failed overwrite stops the script with none of them done.
IsPrefix(s, t) == Len(s) <= Len(t) /\ s = SubSeq(t, 1, Len(s))

OkRun == <<"wait", "taskkill", "wait", "copy_ok", "start", "wait", "del", "delself">>
FailRun == <<"wait", "taskkill", "wait", "copy_fail", "pause", "exit1">>

Logged(e) == \E i \in 1..Len(slog) : slog[i] = e

C8_ScriptOrder ==
    /\ IsPrefix(slog, OkRun) \/ IsPrefix(slog, FailRun)
    /\ Logged("copy_ok") => fs[exePath] = Received(PayloadCall)
    /\ Logged("start") => relaunched = <<Received(PayloadCall)>>
    /\ ~Logged("start") => relaunched = << >>
    /\ Logged("copy_fail") =>
          /\ fs[exePath] = OldImage
          /\ Exists(fs, ArtifactPath)
          /\ Exists(fs, ScriptFile)
    /\ (sstate = "done" /\ swap.written = "ok") =>
          /\ slog = OkRun
          /\ ~Exists(fs, ArtifactPath)
          /\ ~Exists(fs, ScriptFile)
    /\ sstate = "exit1" => slog = FailRun

C8_Witness ==
    /\ sstate = "done"
    /\ swap.written = "ok"
    /\ slog = OkRun
    /\ relaunched # << >>

\* C9: in every interleaving of the exiting process and the script, the
\* script's overwrite of the executable runs only after the process is gone.
C9_OverwriteAfterExit ==
    /\ ScriptAt("copy") => ~alive
    /\ (Logged("copy_ok") \/ Logged("copy_fail")) => ~alive

C9_Witness ==
    /\ ScriptAt("copy")
    /\ pc = "killed"
    /\ ~alive

\* C10 (as claimed): once fetchVersionInfo has ended, whether the download
\* failed, the parse failed or the parse succeeded, version_info.json is gone.
C10_MetadataFileDeleted ==
    pc \notin {"start", "fetch"} => ~Exists(fs, TempFile(m_tempDirectory))

====
